---- MODULE Spec2Model ----
(***************************************************************************)
(* Dependency-graph engine of the build helper: the pass-based topological *)
(* sort (types.rs / hasher.rs), the two transitive-closure queries         *)
(* (types.rs), the recursive content hash (hasher.rs) and the commands of  *)
(* main.rs that drive them.                                                *)
(***************************************************************************)
EXTENDS Integers, Sequences, FiniteSets, TLC

VARIABLES
    inp,      \* the registry as loaded by load_components: Seq of Component
    cmd,      \* the subcommand main dispatched to
    pc,       \* position of the running command
    rem,      \* toposort: working list of not yet placed components
    res,      \* toposort: output so far; afterwards the sorted vector
    seen,     \* toposort: ids already placed
    passes,   \* toposort: iterations of `loop` entered so far
    idx,      \* run_hasher: number of components the map closure has hashed
    n,        \* run_hasher: the HashRecord map, dir -> (depth, digest)
    call,     \* the arguments of the closure query, once it reads them
    ret,      \* what the command's function returned
    stdout    \* what the command has written to standard output

vars == <<inp, cmd, pc, rem, res, seen, passes, idx, n, call, ret, stdout>>

(***************************************************************************)
(* Bounds of the model.                                                    *)
(***************************************************************************)
MaxDeps  == 2   \* longest `dependencies` list of one component
MaxEdges == 3   \* dependency entries of a whole registry
MaxRoots == 2   \* ids given on the command line of a closure query

\* Component ids, in the order of String's Ord; "z" is never a component.
IdSeq     == <<"a", "b", "c", "d">>
MissingId == "z"
IdOrder   == IdSeq \o <<MissingId>>
HashIds   == {"a", "b", "c"}

Range(s) == {s[i] : i \in DOMAIN s}

RECURSIVE Reverse(_)
Reverse(s) == IF s = <<>> THEN <<>> ELSE Append(Reverse(Tail(s)), Head(s))

\* Option<String>: None is <<>>, Some(v) is <<v>>.
None    == <<>>
Some(v) == <<v>>

\* types.rs Component; `rem` (the flattened extra fields) is not modelled.
Component(dir, dependencies) ==
    [dir |-> dir, dependencies |-> dependencies,
     commit_sha |-> None, tree_sha |-> None]

\* Ord of String on the ids of the model.
IdRank(s) == CHOOSE i \in DOMAIN IdOrder : IdOrder[i] = s

depset(c) == Range(c.dependencies)

depsorted_as_declared(c) == c.dependencies

depsorted(c) == SortSeq(c.dependencies, LAMBDA s, t : IdRank(s) < IdRank(t))

(***************************************************************************)
(* Result<Vec<Component>, CustomError>.  The Vec<String> of MissingDepError *)
(* and MissingComponentError is collected from a HashSet, and so is each   *)
(* `unfound` list of CycleError: their order is the set's iteration order, *)
(* the model keeps the sets.  The CycleError string is kept as the         *)
(* sequence of its (key, unfound) entries.                                 *)
(***************************************************************************)
Ok(v) == [kind |-> "Ok", val |-> v, ids |-> {}, keys |-> <<>>]
MissingDepError(ids)       == [kind |-> "MissingDepError", val |-> <<>>, ids |-> ids, keys |-> <<>>]
MissingComponentError(ids) == [kind |-> "MissingComponentError", val |-> <<>>, ids |-> ids, keys |-> <<>>]
CycleError(keys)           == [kind |-> "CycleError", val |-> <<>>, ids |-> {}, keys |-> keys]
Panic(keys)                == [kind |-> "panic", val |-> <<>>, ids |-> {}, keys |-> keys]
NoReturn                   == [kind |-> "none", val |-> <<>>, ids |-> {}, keys |-> <<>>]

(***************************************************************************)
(* toposort: one pass is the `for ... in rem.drain(..)` loop.              *)
(***************************************************************************)
pass_place_front(st, v) ==
    [res |-> <<v>> \o st.res, seen |-> st.seen \cup {v.dir},
     non |-> st.non, active |-> TRUE]

pass_place(st, v) ==
    [res |-> Append(st.res, v), seen |-> st.seen \cup {v.dir},
     non |-> st.non, active |-> TRUE]

pass_ready_any(v, placed) ==
    depset(v) = {} \/ depset(v) \cap placed # {}

pass_ready(v, placed) == depset(v) \subseteq placed

RECURSIVE pass(_, _)
pass(r, st) ==
    IF r = <<>> THEN st
    ELSE LET v == Head(r)
         IN  pass(Tail(r),
                  IF pass_ready(v, st.seen)
                  THEN pass_place(st, v)
                  ELSE [st EXCEPT !.non = Append(@, v)])

toposort_pass(r, rs, sn) ==
    pass(r, [res |-> rs, seen |-> sn, non |-> <<>>, active |-> FALSE])

cycle_keys_first(non, sn) ==
    [i \in {j \in DOMAIN non : j = 1} |->
        [k |-> non[i].dir, unfound |-> depset(non[i]) \ sn]]

cycle_keys_all_deps(non, sn) ==
    [i \in DOMAIN non |-> [k |-> non[i].dir, unfound |-> depset(non[i])]]

\* the `keys` of the cycle diagnostic: every entry of `non` with deps - seen
cycle_keys(non, sn) ==
    [i \in DOMAIN non |-> [k |-> non[i].dir, unfound |-> depset(non[i]) \ sn]]

RECURSIVE toposort_loop(_, _, _)
toposort_loop(r, rs, sn) ==
    IF r = <<>> THEN Ok(rs)
    ELSE LET st == toposort_pass(r, rs, sn)
         IN  IF ~st.active THEN CycleError(cycle_keys(st.non, st.seen))
             ELSE toposort_loop(st.non, st.res, st.seen)

toposort(v) == toposort_loop(v, <<>>, {})

toposort_components(v) == toposort(v)

(***************************************************************************)
(* transitive_dependencies: the scan of the reversed sort order.           *)
(***************************************************************************)
deps_is_root_by_dirs(item, sn, dirs) == item.dir \in dirs

deps_is_root(item, sn, dirs) == item.dir \notin sn

deps_seen_keep(sn, deps) == sn

deps_seen_extend(sn, deps) == sn \cup deps

deps_visit(item, st, dirs, include_roots) ==
    IF item.dir \in st.needed
    THEN LET deps    == depset(item)
             is_root == deps_is_root(item, st.seen, dirs)
         IN  [needed |-> (st.needed \ {item.dir}) \cup deps,
              seen   |-> deps_seen_extend(st.seen, deps),
              result |-> IF ~is_root \/ include_roots
                         THEN Append(st.result, item) ELSE st.result]
    ELSE st

RECURSIVE deps_scan(_, _, _, _)
deps_scan(items, st, dirs, include_roots) ==
    IF items = <<>> THEN st
    ELSE LET st1 == deps_visit(Head(items), st, dirs, include_roots)
         IN  IF st1.needed = {} THEN st1
             ELSE deps_scan(Tail(items), st1, dirs, include_roots)

deps_order_unreversed(result, reverse_order) == result

deps_order(result, reverse_order) ==
    IF reverse_order THEN result ELSE Reverse(result)

\* lines 92-124, from the sorted vector on
dependencies_of_sorted(sorted, dirs, include_roots, reverse_order) ==
    LET st == deps_scan(Reverse(sorted),
                        [needed |-> dirs, seen |-> {}, result |-> <<>>],
                        dirs, include_roots)
    IN  IF st.needed # {} THEN MissingDepError(st.needed)
        ELSE Ok(deps_order(st.result, reverse_order))

transitive_dependencies(v, dirs, include_roots, reverse_order) ==
    LET s == toposort_components(v)
    IN  IF s.kind # "Ok" THEN s
        ELSE dependencies_of_sorted(s.val, dirs, include_roots, reverse_order)

(***************************************************************************)
(* transitive_dependents: the scan of the sort order.                      *)
(***************************************************************************)
dependents_hit_all(item, sn) == depset(item) # {} /\ depset(item) \subseteq sn

dependents_hit(item, sn) == depset(item) \cap sn # {}

dependents_is_root_always(item, sn, include_roots) == item.dir \in sn

\* the `else if`: nothing the item depends on is in seen, but the item is
dependents_is_root(item, sn, include_roots) == item.dir \in sn /\ include_roots

dependents_visit(item, st, include_roots) ==
    LET roots == st.roots \ {item.dir}
    IN  IF dependents_hit(item, st.seen)
        THEN [roots |-> roots, seen |-> st.seen \cup {item.dir},
              result |-> Append(st.result, item)]
        ELSE IF dependents_is_root(item, st.seen, include_roots)
        THEN [roots |-> roots, seen |-> st.seen,
              result |-> Append(st.result, item)]
        ELSE [st EXCEPT !.roots = roots]

RECURSIVE dependents_scan(_, _, _)
dependents_scan(items, st, include_roots) ==
    IF items = <<>> THEN st
    ELSE dependents_scan(Tail(items),
                         dependents_visit(Head(items), st, include_roots),
                         include_roots)

dependents_missing_requested(roots, dirs) == dirs

\* the roots the scan never met
dependents_missing(roots, dirs) == roots

\* lines 135-152, from the sorted vector on
dependents_of_sorted(sorted, dirs, include_roots) ==
    LET st == dependents_scan(sorted,
                              [roots |-> dirs, seen |-> dirs, result |-> <<>>],
                              include_roots)
    IN  IF dependents_missing(st.roots, dirs) # {}
        THEN MissingComponentError(dependents_missing(st.roots, dirs))
        ELSE Ok(st.result)

transitive_dependents(v, dirs, include_roots) ==
    LET s == toposort_components(v)
    IN  IF s.kind # "Ok" THEN s
        ELSE dependents_of_sorted(s.val, dirs, include_roots)

(***************************************************************************)
(* The content hash.  A byte is B(b); the 32 bytes of a SHA-256 digest are *)
(* the single element H(m), m the byte sequence that was hashed: the hash  *)
(* is collision free by construction.                                      *)
(***************************************************************************)
B(b) == [k |-> "b", v |-> b]
H(m) == [k |-> "h", v |-> m]

Sha256(m) == H(m)

u16_be(v) == <<B((v % 65536) \div 256), B(v % 256)>>
u32_be(v) == <<B((v \div 16777216) % 256), B((v \div 65536) % 256),
               B((v \div 256) % 256), B(v % 256)>>

\* hex::decode on a string given as the sequence of its characters
HexLower == <<"0", "1", "2", "3", "4", "5", "6", "7", "8", "9",
              "a", "b", "c", "d", "e", "f">>
HexUpper == <<"0", "1", "2", "3", "4", "5", "6", "7", "8", "9",
              "A", "B", "C", "D", "E", "F">>
hex_val(c) ==
    IF \E j \in DOMAIN HexLower : HexLower[j] = c
    THEN (CHOOSE j \in DOMAIN HexLower : HexLower[j] = c) - 1
    ELSE IF \E j \in DOMAIN HexUpper : HexUpper[j] = c
    THEN (CHOOSE j \in DOMAIN HexUpper : HexUpper[j] = c) - 1
    ELSE -1
hex_decode(s) ==
    IF Len(s) % 2 # 0 \/ \E j \in DOMAIN s : hex_val(s[j]) < 0
    THEN [ok |-> FALSE, bytes |-> <<>>]
    ELSE [ok |-> TRUE,
          bytes |-> [j \in 1..(Len(s) \div 2) |->
                        B(16 * hex_val(s[2 * j - 1]) + hex_val(s[2 * j]))]]

\* translate: the (depth, digest) of every dep; unwrap panics on a miss
translate_ok(deps, hashes) == \A j \in DOMAIN deps : deps[j] \in DOMAIN hashes
translate(deps, hashes)    == [j \in DOMAIN deps |-> hashes[deps[j]]]

Max_last(a, b) == b

Max(a, b) == IF a >= b THEN a ELSE b

RECURSIVE build_fold(_, _, _, _)
build_fold(x, j, acc, r) ==
    IF j > Len(x) THEN [d |-> acc, data |-> r]
    ELSE LET last_node == (Len(x) - 1 = j - 1)
         IN  build_fold(x, j + 1, Max(acc, x[j].depth),
                        r \o u32_be(j - 1) \o u16_be(x[j].depth)
                          \o <<x[j].digest>>
                          \o <<B(IF last_node THEN 1 ELSE 0)>>)

build_hash(deps, hashes) == build_fold(translate(deps, hashes), 1, -1, <<>>)

node_bytes_without_children(mydepth, root_hash, data) ==
    u16_be(mydepth) \o root_hash \o <<B(2)>>

\* the bytes fed to the hasher, in the order of the update calls
node_bytes(mydepth, root_hash, data) ==
    u16_be(mydepth) \o root_hash \o data \o <<B(2)>>

node_depth_by_position(d, hashes) == Cardinality(DOMAIN hashes)

node_depth(d, hashes) == d + 1

hash_for_node(node_hash, deps, hashes) ==
    LET bh      == build_hash(deps, hashes)
        mydepth == node_depth(bh.d, hashes)
    IN  [depth  |-> mydepth,
         digest |-> Sha256(node_bytes(mydepth, hex_decode(node_hash).bytes, bh.data))]

(***************************************************************************)
(* hash_for_dir: the trimmed output of `git log -1 --pretty=format:%H`,    *)
(* or the error of a failed git.  The 40 hex digits of a commit id are cut *)
(* to two; a directory no commit touches makes git print nothing and       *)
(* succeed, which is the empty string.                                     *)
(***************************************************************************)
GitOk(s) == [ok |-> TRUE, out |-> s]
GitErr   == [ok |-> FALSE, out |-> <<>>]
CommitIds  == {<<>>, <<"0", "a">>, <<"1", "b">>}
GitOutputs == {GitOk(s) : s \in CommitIds} \cup {GitErr}

\* the closure of run_hasher's map, for one component
hash_component_ok(comp, hashes, out) ==
    /\ out.ok
    /\ hex_decode(out.out).ok
    /\ translate_ok(depsorted(comp), hashes)

hash_component(comp, hashes, out) ==
    hash_for_node(out.out, depsorted(comp), hashes)

insert_alone(hashes, key, value) == [d \in {key} |-> value]

insert(hashes, key, value) ==
    [d \in DOMAIN hashes \cup {key} |-> IF d = key THEN value ELSE hashes[d]]

EmptyMap == [d \in {} |-> 0]

\* the whole map of run_hasher over the sorted vector x, g the provider
RECURSIVE hash_map(_, _, _, _)
hash_map(x, j, hashes, g) ==
    IF j > Len(x) THEN [ok |-> TRUE, n |-> hashes]
    ELSE IF ~hash_component_ok(x[j], hashes, g[x[j].dir])
    THEN [ok |-> FALSE, n |-> hashes]
    ELSE hash_map(x, j + 1,
                  insert(hashes, x[j].dir, hash_component(x[j], hashes, g[x[j].dir])),
                  g)

hash_records(v, g) ==
    LET s == toposort(v)
    IN  IF s.kind # "Ok" THEN [ok |-> FALSE, n |-> EmptyMap]
        ELSE hash_map(s.val, 1, EmptyMap, g)

(***************************************************************************)
(* The registries of the model.                                            *)
(***************************************************************************)
RECURSIVE SubsetsUpTo(_, _)
SubsetsUpTo(S, m) ==
    IF m = 0 THEN {{}}
    ELSE LET P == SubsetsUpTo(S, m - 1)
         IN  P \cup {A \cup {x} : A \in P, x \in S}

Dirs(v) == {v[j].dir : j \in DOMAIN v}

\* The graph commands read `dependencies` through depset only and compare
\* ids for equality only: a registry stands for every registry with the
\* same dependency sets.  Its components are a, b, ... in this order, each
\* lists its dependency set in ascending order, any dependency relation of
\* at most MaxEdges edges over the components and the missing id.
GraphRegistry(ds, E) ==
    [j \in DOMAIN ds |->
        Component(ds[j], SelectSeq(IdOrder, LAMBDA t : <<j, t>> \in E))]

EdgeSets(ds) ==
    { F \in SubsetsUpTo((DOMAIN ds) \X (Range(ds) \cup {MissingId}), MaxEdges) :
        \A j \in DOMAIN ds : Cardinality({e \in F : e[1] = j}) <= MaxDeps }

GraphInput ==
    \E k \in 0..Len(IdSeq) :
        \E E \in EdgeSets(SubSeq(IdSeq, 1, k)) :
            inp = GraphRegistry(SubSeq(IdSeq, 1, k), E)

\* The hasher reads the lists as declared and orders ids: every order of
\* every subset of the ids, every list (repetitions too) of at most MaxDeps
\* entries, at most MaxEdges entries in all.  `lens` are the lengths of the
\* lists and `flat` is their concatenation.
RECURSIVE SumTo(_, _)
SumTo(lens, j) == IF j = 0 THEN 0 ELSE lens[j] + SumTo(lens, j - 1)

HashRegistry(ds, lens, flat) ==
    [j \in DOMAIN ds |->
        Component(ds[j], SubSeq(flat, SumTo(lens, j - 1) + 1, SumTo(lens, j)))]

ListLengths(ds) ==
    { l \in [DOMAIN ds -> 0..MaxDeps] : SumTo(l, Len(ds)) <= MaxEdges }

InjectiveSeqs(S) ==
    UNION { {q \in [1..k -> S] : \A i, j \in 1..k : i # j => q[i] # q[j]} :
            k \in 0..Cardinality(S) }

HashInput ==
    \E ds \in InjectiveSeqs(HashIds) :
        \E lens \in ListLengths(ds) :
            \E flat \in [1..SumTo(lens, Len(ds)) -> Range(ds) \cup {MissingId}] :
                inp = HashRegistry(ds, lens, flat)

RootSets(v) ==
    {D \in SUBSET (Dirs(v) \cup {MissingId}) :
        1 <= Cardinality(D) /\ Cardinality(D) <= MaxRoots}

NoCall == [dirs |-> {}, include_roots |-> FALSE, reverse_order |-> FALSE]

(***************************************************************************)
(* The commands.                                                           *)
(***************************************************************************)
GraphCommands == {"toposort", "transitive-dependencies", "transitive-dependents"}

Start(commands) ==
    /\ cmd \in commands
    /\ pc = "toposort"
    /\ rem = inp
    /\ res = <<>>
    /\ seen = {}
    /\ passes = 0
    /\ idx = 0
    /\ n = EmptyMap
    /\ call = NoCall
    /\ ret = NoReturn
    /\ stdout = <<>>

Init     == GraphInput /\ Start(GraphCommands)
InitHash == HashInput /\ Start({"hash-components"})

\* one iteration of toposort's `loop` with rem not empty
ToposortPass ==
    /\ pc = "toposort"
    /\ rem # <<>>
    /\ LET st == toposort_pass(rem, res, seen)
       IN  IF st.active
           THEN /\ rem' = st.non
                /\ res' = st.res
                /\ seen' = st.seen
                /\ UNCHANGED <<pc, ret>>
           ELSE /\ rem' = <<>>
                /\ res' = st.res
                /\ seen' = st.seen
                /\ IF cmd = "hash-components"
                   THEN pc' = "panicked" /\ ret' = Panic(cycle_keys(st.non, st.seen))
                   ELSE pc' = "failed" /\ ret' = CycleError(cycle_keys(st.non, st.seen))
    /\ passes' = passes + 1
    /\ UNCHANGED <<inp, cmd, idx, n, call, stdout>>

\* the iteration that finds rem empty: toposort returns res
ToposortReturn ==
    /\ pc = "toposort"
    /\ rem = <<>>
    /\ pc' = IF cmd = "hash-components" THEN "hashing" ELSE "sorted"
    /\ passes' = passes + 1
    /\ UNCHANGED <<inp, cmd, rem, res, seen, idx, n, call, ret, stdout>>

println(out, v) == out \o [j \in DOMAIN v |-> v[j].dir]

\* run_topo after toposort_components returned Ok
RunTopo ==
    /\ cmd = "toposort"
    /\ pc = "sorted"
    /\ ret' = Ok(res)
    /\ stdout' = println(stdout, res)
    /\ pc' = "done"
    /\ UNCHANGED <<inp, cmd, rem, res, seen, passes, idx, n, call>>

Finish_printing_sorted(r) ==
    /\ ret' = r
    /\ stdout' = println(stdout, IF r.kind = "Ok" THEN r.val ELSE res)
    /\ pc' = IF r.kind = "Ok" THEN "done" ELSE "failed"

Finish(r) ==
    /\ ret' = r
    /\ IF r.kind = "Ok"
       THEN pc' = "done" /\ stdout' = println(stdout, r.val)
       ELSE pc' = "failed" /\ UNCHANGED stdout

\* run_listdeps, Deps::Dependencies, after toposort_components returned Ok
RunDependencies(dirs, include_roots, reverse_order) ==
    /\ cmd = "transitive-dependencies"
    /\ pc = "sorted"
    /\ call' = [dirs |-> dirs, include_roots |-> include_roots,
                reverse_order |-> reverse_order]
    /\ Finish(dependencies_of_sorted(res, dirs, include_roots, reverse_order))
    /\ UNCHANGED <<inp, cmd, rem, res, seen, passes, idx, n>>

\* run_listdeps, Deps::Dependents, after toposort_components returned Ok
RunDependents(dirs, include_roots) ==
    /\ cmd = "transitive-dependents"
    /\ pc = "sorted"
    /\ call' = [dirs |-> dirs, include_roots |-> include_roots,
                reverse_order |-> FALSE]
    /\ Finish(dependents_of_sorted(res, dirs, include_roots))
    /\ UNCHANGED <<inp, cmd, rem, res, seen, passes, idx, n>>

\* run_hasher: the map closure on the next component of x
HashComponent(out) ==
    /\ pc = "hashing"
    /\ idx < Len(res)
    /\ LET comp == res[idx + 1]
       IN  IF hash_component_ok(comp, n, out)
           THEN LET r == hash_component(comp, n, out)
                IN  /\ n' = insert(n, comp.dir, r)
                    /\ res' = [res EXCEPT ![idx + 1].commit_sha = Some(out.out),
                                          ![idx + 1].tree_sha = Some(r.digest)]
                    /\ idx' = idx + 1
                    /\ UNCHANGED <<pc, ret>>
           ELSE /\ pc' = "panicked"
                /\ ret' = Panic(<<>>)
                /\ UNCHANGED <<n, res, idx>>
    /\ UNCHANGED <<inp, cmd, rem, seen, passes, call, stdout>>

\* run_hasher: serialize the vector and write it
WriteJson ==
    /\ pc = "hashing"
    /\ idx = Len(res)
    /\ stdout' = Append(stdout, res)
    /\ ret' = Ok(res)
    /\ pc' = "done"
    /\ UNCHANGED <<inp, cmd, rem, res, seen, passes, idx, n, call>>

Next ==
    \/ ToposortPass
    \/ ToposortReturn
    \/ RunTopo
    \/ \E dirs \in RootSets(inp), include_roots \in BOOLEAN, reverse_order \in BOOLEAN :
          RunDependencies(dirs, include_roots, reverse_order)
    \/ \E dirs \in RootSets(inp), include_roots \in BOOLEAN :
          RunDependents(dirs, include_roots)

NextHash ==
    \/ ToposortPass
    \/ ToposortReturn
    \/ \E out \in GitOutputs : HashComponent(out)
    \/ WriteJson

Spec     == Init /\ [][Next]_vars
SpecHash == InitHash /\ [][NextHash]_vars

\* every command of main that the model covers
InitAll == Init \/ InitHash
NextAll ==
    \/ Next
    \/ \E out \in GitOutputs : HashComponent(out)
    \/ WriteJson
SpecAll == InitAll /\ [][NextAll]_vars

\* the graph commands, run to the end: the `loop` of toposort keeps going
SpecLive == Spec /\ WF_vars(ToposortPass) /\ WF_vars(ToposortReturn)

(***************************************************************************)
(* The dependency relation of a registry, stated without the algorithms.   *)
(***************************************************************************)
DepsOf(v, id) == UNION {depset(v[j]) : j \in {q \in DOMAIN v : v[q].dir = id}}

Step(v, S) == UNION {DepsOf(v, id) : id \in S}

RECURSIVE Closure(_, _)
Closure(v, R) == IF Step(v, R) \subseteq R THEN R ELSE Closure(v, R \cup Step(v, R))

\* the ids reached from S through one or more dependency edges
Reachable(v, S) == Closure(v, Step(v, S))

\* the ids that reach S through one or more dependency edges
Reaching(v, S) == {id \in Dirs(v) : Reachable(v, {id}) \cap S # {}}

Acyclic(v) == \A j \in DOMAIN v : v[j].dir \notin Reachable(v, {v[j].dir})
Closed(v)  == \A j \in DOMAIN v : depset(v[j]) \subseteq Dirs(v)

NoDuplicates(s)    == \A p, q \in DOMAIN s : p # q => s[p].dir # s[q].dir
DependencyFirst(s) == \A p, q \in DOMAIN s : s[q].dir \in depset(s[p]) => q < p
IsPermutation(s, v) ==
    Len(s) = Len(v) /\ Range(s) = Range(v) /\ NoDuplicates(s)

Example(l) == [j \in DOMAIN l |-> Component(l[j][1], l[j][2])]
DirSeq(s)  == [j \in DOMAIN s |-> s[j].dir]

Sorted    == pc \in {"sorted", "done"} \/ (pc = "failed" /\ ret.kind # "CycleError")
Answered  == pc \in {"done", "failed"} /\ call # NoCall
WellFormed == Acyclic(inp) /\ Closed(inp)

(***************************************************************************)
(* C1: on a registry with unique ids, acyclic and closed, toposort never   *)
(* fails and what it returns is a permutation of the input in which every  *)
(* dependency stands before every component that depends on it.            *)
(***************************************************************************)
C1_ToposortOrder ==
    WellFormed =>
        /\ ret.kind # "CycleError"
        /\ toposort(inp).kind = "Ok"
        /\ Sorted => /\ IsPermutation(res, inp)
                     /\ DependencyFirst(res)
                     /\ toposort(inp) = Ok(res)

C1_Witness ==
    /\ pc = "sorted"
    /\ WellFormed
    /\ inp = Example(<< <<"a", <<"b", "c">>>>, <<"b", <<"c">>>>, <<"c", <<>>>> >>)
    /\ DirSeq(res) = <<"c", "b", "a">>

(***************************************************************************)
(* C2: on a registry whose dependency relation has a cycle toposort fails  *)
(* with CycleError, and the diagnostic names every component not placed,   *)
(* each with exactly its dependencies minus the placed ids; for            *)
(* {A -> B, B -> A} it names A with B and B with A.                        *)
(***************************************************************************)
C2_CycleDiagnostic ==
    /\ ~Acyclic(inp) =>
          /\ toposort(inp).kind = "CycleError"
          /\ pc # "toposort" => pc = "failed" /\ ret = toposort(inp)
    /\ ret.kind = "CycleError" =>
          /\ {ret.keys[j].k : j \in DOMAIN ret.keys} = Dirs(inp) \ Dirs(res)
          /\ Len(ret.keys) = Len(inp) - Len(res)
          /\ \A j \in DOMAIN ret.keys :
                ret.keys[j].unfound = DepsOf(inp, ret.keys[j].k) \ Dirs(res)
    /\ (inp = Example(<< <<"a", <<"b">>>>, <<"b", <<"a">>>> >>) /\ pc # "toposort") =>
          ret = CycleError(<< [k |-> "a", unfound |-> {"b"}],
                              [k |-> "b", unfound |-> {"a"}] >>)

C2_Witness ==
    /\ pc = "failed"
    /\ ret.kind = "CycleError"
    /\ inp = Example(<< <<"a", <<"b">>>>, <<"b", <<"a">>>> >>)

C2_WitnessPartial ==
    /\ pc = "failed"
    /\ ~Acyclic(inp)
    /\ Closed(inp)
    /\ Len(res) = 1
    /\ Len(ret.keys) = 3

(***************************************************************************)
(* C3 as stated: on a registry in which some component b declares the      *)
(* dependency z and no component z exists, transitive_dependencies fails   *)
(* with MissingDepError whose ids are exactly z.                           *)
(***************************************************************************)
DeclaresMissing(v) == \E j \in DOMAIN v : MissingId \in depset(v[j])

C4_DependenciesExact ==
    (cmd = "transitive-dependencies" /\ Answered /\ WellFormed
        /\ call.dirs \subseteq Dirs(inp)) =>
        /\ ret.kind = "Ok"
        /\ NoDuplicates(ret.val)
        /\ Range(ret.val) \subseteq Range(inp)
        /\ Dirs(ret.val) = Reachable(inp, call.dirs)
                             \cup (IF call.include_roots THEN call.dirs ELSE {})
        /\ (/\ inp = Example(<< <<"a", <<>>>>, <<"b", <<"a">>>>, <<"c", <<"a", "b">>>> >>)
            /\ call = [dirs |-> {"c"}, include_roots |-> FALSE, reverse_order |-> FALSE])
           => DirSeq(ret.val) = <<"a", "b">>

C4_Witness ==
    /\ cmd = "transitive-dependencies"
    /\ pc = "done"
    /\ inp = Example(<< <<"a", <<>>>>, <<"b", <<"a">>>>, <<"c", <<"a", "b">>>> >>)
    /\ call = [dirs |-> {"c"}, include_roots |-> FALSE, reverse_order |-> FALSE]
    /\ DirSeq(ret.val) = <<"a", "b">>

(***************************************************************************)
(* C5 as stated: with include_roots = false no component whose id is one   *)
(* of the roots is in the result of transitive_dependencies.               *)
(***************************************************************************)
C5_NoRootAppended ==
    (cmd = "transitive-dependencies" /\ Answered /\ ~call.include_roots) =>
        Dirs(ret.val) \cap call.dirs = {}

(***************************************************************************)
(* C5 amended: with include_roots = false a root is in the result exactly  *)
(* when another root depends on it, directly or transitively; a root no    *)
(* other root depends on is never in it.                                   *)
(***************************************************************************)
C5_RootAppendedIffDependency ==
    (cmd = "transitive-dependencies" /\ Answered /\ ret.kind = "Ok"
        /\ ~call.include_roots) =>
        \A r \in call.dirs :
            r \in Dirs(ret.val) <=> r \in Reachable(inp, call.dirs \ {r})

C5_Witness ==
    /\ cmd = "transitive-dependencies"
    /\ pc = "done"
    /\ ~call.include_roots
    /\ inp = Example(<< <<"a", <<>>>>, <<"b", <<"a">>>>, <<"c", <<"b">>>> >>)
    /\ call.dirs = {"a", "c"}
    /\ Dirs(ret.val) = {"a", "b"}

(***************************************************************************)
(* C6: on an acyclic, closed registry and roots that all exist,            *)
(* transitive_dependents with include_roots = true returns exactly the     *)
(* roots and every component that reaches a root, each once, every         *)
(* returned component after the returned components it depends on; lib,    *)
(* svcA:[lib], svcB:[lib], svcC:[svcA] (here a, b, c, d) with roots {lib}  *)
(* gives [lib, svcA, svcB, svcC].                                          *)
(***************************************************************************)
LibExample ==
    Example(<< <<"a", <<>>>>, <<"b", <<"a">>>>, <<"c", <<"a">>>>, <<"d", <<"b">>>> >>)

C6_DependentsExact ==
    (cmd = "transitive-dependents" /\ Answered /\ WellFormed
        /\ call.dirs \subseteq Dirs(inp) /\ call.include_roots) =>
        /\ ret.kind = "Ok"
        /\ NoDuplicates(ret.val)
        /\ Range(ret.val) \subseteq Range(inp)
        /\ Dirs(ret.val) = call.dirs \cup Reaching(inp, call.dirs)
        /\ DependencyFirst(ret.val)
        /\ (inp = LibExample /\ call.dirs = {"a"}) =>
              DirSeq(ret.val) = <<"a", "b", "c", "d">>

C6_Witness ==
    /\ cmd = "transitive-dependents"
    /\ pc = "done"
    /\ inp = LibExample
    /\ call = [dirs |-> {"a"}, include_roots |-> TRUE, reverse_order |-> FALSE]
    /\ DirSeq(ret.val) = <<"a", "b", "c", "d">>

(***************************************************************************)
(* C7: on an acyclic, closed registry transitive_dependents fails with     *)
(* MissingComponentError exactly when some requested root is no component  *)
(* of the registry, the error lists exactly the absent roots, and when     *)
(* every root exists it returns a result.                                  *)
(***************************************************************************)
C7_MissingComponent ==
    (cmd = "transitive-dependents" /\ Answered /\ WellFormed) =>
        IF call.dirs \subseteq Dirs(inp)
        THEN ret.kind = "Ok" /\ pc = "done"
        ELSE ret = MissingComponentError(call.dirs \ Dirs(inp)) /\ pc = "failed"

C7_Witness ==
    /\ cmd = "transitive-dependents"
    /\ pc = "failed"
    /\ WellFormed
    /\ Len(inp) = 2
    /\ call.dirs = {"a", MissingId}
    /\ ret = MissingComponentError({MissingId})

(***************************************************************************)
(* The hasher's claims compare the run of the state machine with a second  *)
(* run, over a changed registry or provider, of the same functions.        *)
(***************************************************************************)
\* what git answered in this run, read back from the hashed components
Provider ==
    [d \in Dirs(res) |->
        GitOk((CHOOSE c \in Range(res) : c.dir = d).commit_sha[1])]

Permuted(s, p) == [j \in DOMAIN s |-> s[p[j]]]

Hashed == cmd = "hash-components" /\ pc = "done"

(***************************************************************************)
(* C8: a registry that differs from the hashed one only in the order in    *)
(* which one node lists its dependencies feeds the same bytes to the hash  *)
(* for every node (a digest here is the byte sequence it was computed      *)
(* from), so every node gets the same depth and digest.                    *)
(***************************************************************************)
C8_DeclarationOrder ==
    Hashed =>
        \A j \in DOMAIN inp :
            \A p \in Permutations(DOMAIN inp[j].dependencies) :
                LET other == [inp EXCEPT ![j].dependencies = Permuted(@, p)]
                IN  hash_records(other, Provider) = [ok |-> TRUE, n |-> n]

C8_Witness ==
    /\ Hashed
    /\ \E j \in DOMAIN inp : inp[j].dependencies = <<"b", "a">>
    /\ Len(inp) = 3

(***************************************************************************)
(* C9: with a collision-free hash, a second run over the same registry in  *)
(* which only the content identifier of one leaf L differs gives another   *)
(* digest to L and to every node that transitively depends on L, and the   *)
(* same digest to every other node.                                        *)
(***************************************************************************)
C9_LeafChange ==
    Hashed =>
        \A j \in DOMAIN inp :
            depset(inp[j]) = {} =>
                \A c \in CommitIds \ {Provider[inp[j].dir].out} :
                    LET L     == inp[j].dir
                        other == hash_records(inp, [Provider EXCEPT ![L] = GitOk(c)])
                    IN  /\ other.ok
                        /\ DOMAIN other.n = DOMAIN n
                        /\ \A d \in DOMAIN n :
                              (other.n[d].digest # n[d].digest)
                                  <=> (d = L \/ L \in Reachable(inp, {d}))

C9_Witness ==
    /\ Hashed
    /\ inp = Example(<< <<"c", <<"b">>>>, <<"a", <<>>>>, <<"b", <<>>>> >>)

(***************************************************************************)
(* C10: the (depth, digest) of every node is the same for every input      *)
(* order of the same component records, whatever order the sorter then     *)
(* picks, and hashing the same registry again gives the same records.      *)
(***************************************************************************)
C10_InputOrder ==
    Hashed =>
        \A p \in Permutations(DOMAIN inp) :
            hash_records(Permuted(inp, p), Provider) = [ok |-> TRUE, n |-> n]

C10_Witness ==
    /\ Hashed
    /\ inp = Example(<< <<"b", <<>>>>, <<"c", <<"a", "b">>>>, <<"a", <<>>>> >>)
    /\ DirSeq(res) = <<"b", "a", "c">>

(***************************************************************************)
(* C11: the depth recorded for a node is 0 when it has no dependencies and *)
(* 1 plus the greatest depth recorded for its dependencies otherwise, so   *)
(* it is the number of edges of the longest dependency chain below the     *)
(* node; a:[], b:[a], c:[a,b] get the depths 0, 1, 2.                      *)
(***************************************************************************)
Greatest(S) == CHOOSE m \in S : \A k \in S : k <= m

RECURSIVE LongestChain(_, _)
LongestChain(v, id) ==
    IF DepsOf(v, id) = {} THEN 0
    ELSE 1 + Greatest({LongestChain(v, e) : e \in DepsOf(v, id)})

C11_Depth ==
    cmd = "hash-components" =>
        /\ \A d \in DOMAIN n :
              /\ n[d].depth = IF DepsOf(inp, d) = {} THEN 0
                              ELSE 1 + Greatest({n[e].depth : e \in DepsOf(inp, d)})
              /\ n[d].depth = LongestChain(inp, d)
        /\ (Hashed /\ DirSeq(inp) = <<"a", "b", "c">>
              /\ inp[1].dependencies = <<>>
              /\ inp[2].dependencies = <<"a">>
              /\ depset(inp[3]) = {"a", "b"}) =>
              /\ n["a"].depth = 0
              /\ n["b"].depth = 1
              /\ n["c"].depth = 2

C11_Witness ==
    /\ Hashed
    /\ inp = Example(<< <<"a", <<>>>>, <<"b", <<"a">>>>, <<"c", <<"a", "b">>>> >>)
    /\ n["c"].depth = 2

(***************************************************************************)
(* C12: no partial output.  Whatever a command has written, it wrote after *)
(* its whole computation succeeded: the sort is over, the closure query or *)
(* the hashing of every component has returned Ok, and what stands on      *)
(* standard output is the whole result.  A run that ended in an error or a *)
(* panic (cycle, missing dependency or component, failed content lookup or *)
(* decode) has written nothing.                                            *)
(***************************************************************************)
C12_NoPartialOutput ==
    /\ pc \in {"failed", "panicked"} => stdout = <<>>
    /\ pc # "done" => stdout = <<>>
    /\ stdout # <<>> =>
          /\ ret.kind = "Ok"
          /\ rem = <<>>
          /\ Len(res) = Len(inp)
          /\ IF cmd = "hash-components"
             THEN /\ idx = Len(inp)
                  /\ DOMAIN n = Dirs(inp)
                  /\ stdout = <<ret.val>>
                  /\ \A j \in DOMAIN ret.val :
                        ret.val[j].commit_sha # None /\ ret.val[j].tree_sha # None
             ELSE stdout = DirSeq(ret.val)

C12_Witness ==
    /\ cmd = "hash-components"
    /\ pc = "panicked"
    /\ idx = 2
    /\ Len(inp) = 3
    /\ stdout = <<>>

(***************************************************************************)
(* C13: the order of transitive_dependencies.  Without reverse_order every *)
(* returned component stands after every returned component it depends on; *)
(* with reverse_order every returned component stands before them; and the *)
(* call with the other value of reverse_order, on the same registry, roots *)
(* and include_roots, returns exactly the reversed sequence.               *)
(***************************************************************************)
ConsumerFirst(s) == \A p, q \in DOMAIN s : s[q].dir \in depset(s[p]) => p < q

OtherOrder ==
    transitive_dependencies(inp, call.dirs, call.include_roots, ~call.reverse_order)

C13_DependenciesOrder ==
    (cmd = "transitive-dependencies" /\ Answered /\ ret.kind = "Ok") =>
        /\ ret = transitive_dependencies(inp, call.dirs, call.include_roots,
                                         call.reverse_order)
        /\ IF call.reverse_order
           THEN ConsumerFirst(ret.val)
           ELSE DependencyFirst(ret.val)
        /\ OtherOrder.kind = "Ok"
        /\ OtherOrder.val = Reverse(ret.val)
        /\ stdout = DirSeq(ret.val)

C13_Witness ==
    /\ cmd = "transitive-dependencies"
    /\ pc = "done"
    /\ call.reverse_order
    /\ call.dirs = {"c"}
    /\ DirSeq(ret.val) = <<"c", "b", "a">>
    /\ DirSeq(OtherOrder.val) = <<"a", "b", "c">>

(***************************************************************************)
(* C14: the roots in the answer of transitive_dependents.  A component     *)
(* that depends, directly or not, on a requested root is returned under    *)
(* either value of include_roots.  With include_roots = FALSE a requested  *)
(* root is returned exactly when it depends, directly or not, on another   *)
(* requested root; with include_roots = TRUE every requested root is       *)
(* returned, once.                                                         *)
(***************************************************************************)
Occurrences(s, id) == Cardinality({j \in DOMAIN s : s[j].dir = id})

OtherRoots ==
    transitive_dependents(inp, call.dirs, ~call.include_roots)

C14_DependentsRoots ==
    (cmd = "transitive-dependents" /\ Answered /\ ret.kind = "Ok") =>
        /\ ret = transitive_dependents(inp, call.dirs, call.include_roots)
        /\ Reaching(inp, call.dirs) \subseteq Dirs(ret.val)
        /\ OtherRoots.kind = "Ok"
        /\ Dirs(OtherRoots.val) \ call.dirs = Dirs(ret.val) \ call.dirs
        /\ \A r \in call.dirs :
              /\ r \in Dirs(inp)
              /\ Occurrences(ret.val, r) <= 1
              /\ IF call.include_roots
                 THEN Occurrences(ret.val, r) = 1
                 ELSE r \in Dirs(ret.val) <=>
                         Reachable(inp, {r}) \cap (call.dirs \ {r}) # {}

C14_Witness ==
    /\ cmd = "transitive-dependents"
    /\ pc = "done"
    /\ ~call.include_roots
    /\ call.dirs = {"a", "b"}
    /\ inp = Example(<< <<"a", <<>> >>, <<"b", <<"a">> >>, <<"c", <<>> >> >>)
    /\ DirSeq(ret.val) = <<"b">>
    /\ DirSeq(OtherRoots.val) = <<"a", "b">>

(***************************************************************************)
(* C15: the HashRecord map during a hashing run.  While components are     *)
(* hashed the map holds exactly the components hashed so far, which are    *)
(* the first idx of the sorted vector; every dependency of the component   *)
(* hashed next, and of every later one, is a key of the map or will be     *)
(* when its turn comes, so translate finds every id it looks up.  A step   *)
(* changes the map only by adding the entry of the component just hashed,  *)
(* whose key was absent, and leaves every earlier entry as it was.         *)
(***************************************************************************)
HashedSoFar == {res[j].dir : j \in 1..idx}

C15_MapState ==
    (cmd = "hash-components" /\ pc = "hashing") =>
        /\ DOMAIN n = HashedSoFar
        /\ \A j \in DOMAIN res :
              j > idx => /\ res[j].dir \notin DOMAIN n
                         /\ depset(res[j]) \subseteq {res[q].dir : q \in 1..(j - 1)}
        /\ idx < Len(res) => translate_ok(depsorted(res[idx + 1]), n)

C15_MapStep ==
    /\ \A d \in DOMAIN n : d \in DOMAIN n' /\ n'[d] = n[d]
    /\ n' # n =>
          /\ pc = "hashing" /\ idx' = idx + 1
          /\ res[idx'].dir \notin DOMAIN n
          /\ DOMAIN n' = DOMAIN n \cup {res[idx'].dir}
          /\ depset(res[idx']) \subseteq DOMAIN n
    /\ idx' # idx => n' # n

C15_HashOrder == [](C15_MapState) /\ [][C15_MapStep]_vars

C15_Witness ==
    /\ cmd = "hash-components"
    /\ pc = "hashing"
    /\ Len(res) = 3
    /\ idx = 2
    /\ depset(res[3]) = {res[1].dir, res[2].dir}
    /\ res[1].dir \in depset(res[2])
    /\ DOMAIN n = {res[1].dir, res[2].dir}

(***************************************************************************)
(* C16: the passes of the sorter.  A pass examines the working list in     *)
(* order and moves a node to the output exactly when its dependency set is *)
(* a subset of `placed` as it stands at that moment, so every node whose   *)
(* dependencies were placed before the pass is moved; the moved nodes are  *)
(* appended in the order they have in the working list, which is their     *)
(* order in the input.  A pass that moves something shortens the working   *)
(* list and the loop goes on; a pass that moves nothing ends the sort with *)
(* the cycle error; an empty working list ends it with the output.  The    *)
(* loop is entered at most n + 1 times for n nodes, and it always ends.    *)
(***************************************************************************)
Moved == SubSeq(res', Len(res) + 1, Len(res'))

PlacedAt(j) ==
    seen \cup {rem[q].dir : q \in {p \in 1..(j - 1) : rem[p] \in Range(Moved)}}

C16_LoopState ==
    /\ passes <= Len(inp) + 1
    /\ pc = "toposort" =>
          /\ passes <= Len(res)
          /\ seen = Dirs(res)
          /\ rem = SelectSeq(inp, LAMBDA v : v \notin Range(res))

C16_PassStep ==
    /\ (pc = "toposort" /\ rem # <<>>) =>
          /\ Len(res') >= Len(res)
          /\ SubSeq(res', 1, Len(res)) = res
          /\ Moved = SelectSeq(rem, LAMBDA v : v \in Range(Moved))
          /\ \A j \in DOMAIN rem :
                /\ rem[j] \in Range(Moved) <=> depset(rem[j]) \subseteq PlacedAt(j)
                /\ depset(rem[j]) \subseteq seen => rem[j] \in Range(Moved)
          /\ seen' = seen \cup Dirs(Moved)
          /\ passes' = passes + 1
          /\ IF Moved = <<>>
             THEN /\ pc' = "failed"
                  /\ ret'.kind = "CycleError"
                  /\ DirSeq(rem) = [j \in DOMAIN ret'.keys |-> ret'.keys[j].k]
             ELSE /\ pc' = "toposort"
                  /\ rem' = SelectSeq(rem, LAMBDA v : v \notin Range(Moved))
                  /\ Len(rem') < Len(rem)
    /\ (pc = "toposort" /\ rem = <<>>) =>
          /\ pc' = "sorted"
          /\ res' = res
          /\ passes' = passes + 1
    /\ pc # "toposort" => passes' = passes

C16_Passes ==
    /\ [](C16_LoopState)
    /\ [][C16_PassStep]_vars
    /\ <>(pc # "toposort")

C16_Witness ==
    /\ pc = "sorted"
    /\ inp = Example(<< <<"a", <<"b">> >>, <<"b", <<"c">> >>, <<"c", <<>> >> >>)
    /\ DirSeq(res) = <<"c", "b", "a">>
    /\ passes = Len(inp) + 1

====
